---- MODULE Spec2Model ----
(***************************************************************************)
(* octobot HTTP(S) dispatch core.                                          *)
(*                                                                         *)
(*   src/src/server/main.rs : start, run_server, load_identity             *)
(*   src/src/server/http.rs : FilteredHandler, NotFoundHandler, parse_json *)
(*                                                                         *)
(* Three specifications share the variables:                               *)
(*   Spec        the listener bootstrap (start / run_server) together with *)
(*               the connections that reach the spawned listeners;         *)
(*   SpecFilter  one request travelling through a chain of                 *)
(*               FilteredHandlers;                                         *)
(*   SpecJson    one request travelling through parse_json.                *)
(*                                                                         *)
(* start() builds the future of run_server inside an async block and never *)
(* awaits it (main.rs:31-33), so under start() the body of run_server is   *)
(* never polled.  The body is therefore modelled under two entry points:   *)
(* entry = "start" is the program as start() drives it, entry =            *)
(* "run_server" is the future of run_server polled to completion on a      *)
(* live runtime.                                                           *)
(***************************************************************************)
EXTENDS Integers, Sequences, FiniteSets, TLC

VARIABLES
    entry,        \* which function is being executed: "start" or "run_server"
    cfg,          \* config.main: listen_addr, listen_addr_ssl, ssl_pkcs12_file, num_http_threads
    start_pc,     \* position inside start()
    num_http_threads, \* the local of start(); 0 while not computed
    rt,           \* the runtime: "none", "running", "dropped"
    pc,           \* position inside run_server
    http_addr,    \* parsed SocketAddr (its port), 0 while unset
    https_addr,   \* parsed SocketAddr (its port), 0 while unset
    tls_acceptor, \* "unset", "none", "some"
    redirect_port,\* port RedirectService was constructed with, 0 while unset
    listener,     \* per listener: bound port, spawned server task, service bound to it
    conn,         \* per connection: the listener it arrived on and how far it got
    log,          \* set of log records written so far
    panic_msg,    \* message of the panic that aborted run_server, "" while none
    identity_file,\* what reading the PKCS#12 file gave: "unread" or a file state
    fh,           \* state of one FilteredHandler chain evaluation
    pj,           \* state of one parse_json evaluation
    hc            \* calls made on the Handler helpers and what they returned

srvVars == <<entry, cfg, start_pc, num_http_threads, rt, pc, http_addr, https_addr,
             tls_acceptor, redirect_port, listener, conn, log, panic_msg, identity_file>>
vars == <<entry, cfg, start_pc, num_http_threads, rt, pc, http_addr, https_addr,
          tls_acceptor, redirect_port, listener, conn, log, panic_msg, identity_file,
          fh, pj, hc>>

\* ---------------------------------------------------------------- bounds
MaxConns == 2

Conns == 1 .. MaxConns

\* ------------------------------------------------------- Option<T> values
None == <<>>
Some(x) == <<x>>
IsSome(o) == Len(o) = 1
Unwrap(o) == o[1]
UnwrapOr(o, d) == IF IsSome(o) THEN o[1] ELSE d

\* ------------------------------------------------------------ bind addresses
\* The address strings a configuration may carry.
AddrStrings == {"0.0.0.0:3001", "0.0.0.0:8443", "bogus"}

DefaultHttpAddr == "0.0.0.0:3000"
DefaultHttpsAddr == "0.0.0.0:3001"

ParseSocketAddr_DefaultOnError(s) ==
    CASE s = "0.0.0.0:3000" -> <<TRUE, 3000>>
      [] s = "0.0.0.0:3001" -> <<TRUE, 3001>>
      [] s = "0.0.0.0:8443" -> <<TRUE, 8443>>
      [] OTHER -> <<TRUE, 3001>>

\* str::parse::<SocketAddr>: Ok(port) for "ip:port", Err for anything else.
\* The result is <<ok, port>>.
ParseSocketAddr(s) ==
    CASE s = "0.0.0.0:3000" -> <<TRUE, 3000>>
      [] s = "0.0.0.0:3001" -> <<TRUE, 3001>>
      [] s = "0.0.0.0:8443" -> <<TRUE, 8443>>
      [] OTHER -> <<FALSE, 0>>

\* ------------------------------------------------------------- TLS identity
\* What the file system and the PKCS#12 decoder can answer for a configured path.
FileStates == {"missing", "unreadable", "wrong_pass", "valid"}

load_identity_AnyPass(file) ==
    CASE file = "missing" -> "cannot open pkcs12 identity file"
      [] file = "unreadable" -> "cannot read pkcs12 identity file"
      [] OTHER -> "identity"

\* load_identity: the panic message on open, read or decode failure, else the identity.
load_identity(file) ==
    CASE file = "missing" -> "cannot open pkcs12 identity file"
      [] file = "unreadable" -> "cannot read pkcs12 identity file"
      [] file = "wrong_pass" -> "cannot read pkcs12 identity"
      [] OTHER -> "identity"

\* ---------------------------------------------------------------- listeners
Listeners == {"https", "http"}

NoListener == [port |-> 0, task |-> "none", service |-> "none"]

NewConn == [on |-> "none", hs |-> "none", st |-> "new"]

\* The process is alive and its runtime polls tasks.
Alive == rt = "running" /\ pc # "panicked"

\* A spawned server task that is being polled.
Accepting(l) == Alive /\ listener[l].task = "running"

LogRec(kind, c) == [kind |-> kind, conn |-> c]

\* ------------------------------------------------------------------- Init
ThreadOptions == {None, Some(1), Some(3)}

Configs ==
    [listen_addr : {None} \cup {Some(a) : a \in AddrStrings},
     listen_addr_ssl : {None} \cup {Some(a) : a \in AddrStrings},
     ssl_pkcs12_file : {None, Some("identity.p12")},
     num_http_threads : ThreadOptions]

FhIdle == [pc |-> "idle"]
PjIdle == [pc |-> "idle"]
HcIdle == [errors |-> {}, notfound |-> {}, log |-> {}]

SrvInit ==
    /\ entry \in {"start", "run_server"}
    /\ cfg \in Configs
    /\ start_pc = "entry"
    /\ num_http_threads = 0
    /\ rt = IF entry = "run_server" THEN "running" ELSE "none"
    /\ pc = "unpolled"
    /\ http_addr = 0
    /\ https_addr = 0
    /\ tls_acceptor = "unset"
    /\ redirect_port = 0
    /\ listener = [l \in Listeners |-> NoListener]
    /\ conn = [c \in Conns |-> NewConn]
    /\ log = {}
    /\ panic_msg = ""
    /\ identity_file = "unread"

Init ==
    /\ SrvInit
    /\ fh = FhIdle
    /\ pj = PjIdle
    /\ hc = HcIdle

\* ------------------------------------------------------------------ start
Max_NoFloor(a, b) == b

\* main.rs:28  std::cmp::max
Max(a, b) == IF a >= b THEN a ELSE b

DefaultThreads == 20
MinThreads == 2

\* main.rs:28,30  the thread count and the runtime built with it
StartRuntime ==
    /\ entry = "start" /\ start_pc = "entry"
    /\ num_http_threads' = Max(MinThreads, UnwrapOr(cfg.num_http_threads, DefaultThreads))
    /\ rt' = "running"
    /\ start_pc' = "block_on"
    /\ UNCHANGED <<entry, cfg, pc, http_addr, https_addr, tls_acceptor, redirect_port,
                   listener, conn, log, panic_msg, identity_file, fh, pj, hc>>

\* main.rs:31-33  block_on(async move { run_server(config) }): the async block
\* evaluates run_server(config), which only builds the future, and resolves to
\* that future without polling it; block_on returns it and the statement drops it.
StartBlockOn ==
    /\ entry = "start" /\ start_pc = "block_on"
    /\ pc = "unpolled"
    /\ pc' = "dropped"
    /\ start_pc' = "exit"
    /\ UNCHANGED <<entry, cfg, num_http_threads, rt, http_addr, https_addr, tls_acceptor,
                   redirect_port, listener, conn, log, panic_msg, identity_file, fh, pj, hc>>

\* main.rs:34  start returns; rt goes out of scope and the runtime is shut down.
StartReturn ==
    /\ entry = "start" /\ start_pc = "exit"
    /\ rt' = "dropped"
    /\ start_pc' = "returned"
    /\ UNCHANGED <<entry, cfg, num_http_threads, pc, http_addr, https_addr, tls_acceptor,
                   redirect_port, listener, conn, log, panic_msg, identity_file, fh, pj, hc>>

\* -------------------------------------------------------------- run_server
\* unwrap / expect / panic! inside run_server: the future resolves by panicking.
Panic(msg) ==
    /\ pc' = "panicked"
    /\ panic_msg' = msg

NoPanic(next) ==
    /\ pc' = next
    /\ panic_msg' = panic_msg

\* main.rs:37-59  the github session; a failing constructor panics.
RsGithub ==
    /\ entry = "run_server" /\ pc = "unpolled"
    /\ \E ok \in BOOLEAN :
         IF ok THEN NoPanic("jira") ELSE Panic("Error initiating github session")
    /\ UNCHANGED <<entry, cfg, start_pc, num_http_threads, rt, http_addr, https_addr,
                   tls_acceptor, redirect_port, listener, conn, log, identity_file, fh, pj, hc>>

\* main.rs:61-69  the jira session; a failing constructor panics.
RsJira ==
    /\ pc = "jira"
    /\ \E ok \in BOOLEAN :
         IF ok THEN NoPanic("http_addr") ELSE Panic("Error initiating jira session")
    /\ UNCHANGED <<entry, cfg, start_pc, num_http_threads, rt, http_addr, https_addr,
                   tls_acceptor, redirect_port, listener, conn, log, identity_file, fh, pj, hc>>

\* main.rs:71-74
RsHttpAddr ==
    /\ pc = "http_addr"
    /\ LET r == ParseSocketAddr(UnwrapOr(cfg.listen_addr, DefaultHttpAddr))
       IN  IF r[1]
           THEN http_addr' = r[2] /\ NoPanic("https_addr")
           ELSE http_addr' = http_addr /\ Panic("invalid listen_addr")
    /\ UNCHANGED <<entry, cfg, start_pc, num_http_threads, rt, https_addr,
                   tls_acceptor, redirect_port, listener, conn, log, identity_file, fh, pj, hc>>

\* main.rs:76-79
RsHttpsAddr ==
    /\ pc = "https_addr"
    /\ LET r == ParseSocketAddr(UnwrapOr(cfg.listen_addr_ssl, DefaultHttpsAddr))
       IN  IF r[1]
           THEN https_addr' = r[2] /\ NoPanic("tls_acceptor")
           ELSE https_addr' = https_addr /\ Panic("invalid listen_addr_ssl")
    /\ UNCHANGED <<entry, cfg, start_pc, num_http_threads, rt, http_addr,
                   tls_acceptor, redirect_port, listener, conn, log, identity_file, fh, pj, hc>>

\* main.rs:81-88  with a configured path: load_identity (panics on failure),
\* then TlsAcceptor::builder(identity).build()?, whose error leaves run_server
\* early; without a path: the warning and no acceptor.
RsTlsAcceptor ==
    /\ pc = "tls_acceptor"
    /\ IF IsSome(cfg.ssl_pkcs12_file)
       THEN \E file \in FileStates, built \in BOOLEAN :
              /\ identity_file' = file
              /\ log' = log
              /\ IF load_identity(file) # "identity"
                 THEN tls_acceptor' = tls_acceptor /\ Panic(load_identity(file))
                 ELSE IF built
                      THEN tls_acceptor' = "some" /\ NoPanic("services")
                      ELSE tls_acceptor' = tls_acceptor /\ NoPanic("returned_err")
       ELSE /\ identity_file' = identity_file
            /\ log' = log \cup {LogRec("warn: No SSL configured", 0)}
            /\ tls_acceptor' = "none"
            /\ NoPanic("services")
    /\ UNCHANGED <<entry, cfg, start_pc, num_http_threads, rt, http_addr, https_addr,
                   redirect_port, listener, conn, fh, pj, hc>>

RedirectTarget_HttpPort == http_addr

\* main.rs:94  RedirectService::new(https_addr.port())
RedirectTarget == https_addr

\* main.rs:90-116  the two services; the redirect service gets the HTTPS port.
\* main.rs:118,152  the branch on the acceptor chooses the topology.
RsServices ==
    /\ pc = "services"
    /\ redirect_port' = RedirectTarget
    /\ pc' = IF tls_acceptor = "some" THEN "bind_https" ELSE "serve_http_main"
    /\ UNCHANGED <<entry, cfg, start_pc, num_http_threads, rt, http_addr, https_addr,
                   tls_acceptor, listener, conn, log, panic_msg, identity_file, fh, pj, hc>>

\* bind(2): refused when this process already listens on the port, otherwise
\* granted or refused by the operating system (the port may be taken elsewhere).
BindOutcomes(port) ==
    IF \E l \in Listeners : listener[l].port = port THEN {FALSE} ELSE BOOLEAN

\* main.rs:121  TcpListener::bind(&https_addr).await.unwrap()
RsBindHttps ==
    /\ pc = "bind_https"
    /\ \E ok \in BindOutcomes(https_addr) :
         IF ok
         THEN /\ listener' = [listener EXCEPT !["https"].port = https_addr]
              /\ NoPanic("spawn_https")
         ELSE listener' = listener /\ Panic("cannot bind listen_addr_ssl")
    /\ UNCHANGED <<entry, cfg, start_pc, num_http_threads, rt, http_addr, https_addr,
                   tls_acceptor, redirect_port, conn, log, identity_file, fh, pj, hc>>

\* main.rs:140  the service the HTTPS server is built with
HttpsService == "main"

\* main.rs:122-142  the accept loop wrapped in a server, and the server spawned:
\* from here on the runtime's other workers poll it while run_server goes on.
RsSpawnHttps ==
    /\ pc = "spawn_https"
    /\ listener' = [listener EXCEPT !["https"].task = "running",
                                    !["https"].service = HttpsService]
    /\ pc' = "serve_http_redirect"
    /\ UNCHANGED <<entry, cfg, start_pc, num_http_threads, rt, http_addr, https_addr,
                   tls_acceptor, redirect_port, conn, log, panic_msg, identity_file, fh, pj, hc>>

SecureHttpService_Main == "main"

\* main.rs:146  the service bound to the HTTP listener in secure mode
SecureHttpService == "redirect"

InsecureHttpService_Redirect == "redirect"

\* main.rs:155  the service bound to the HTTP listener in insecure mode
InsecureHttpService == "main"

\* Server::bind(&addr).serve(service) followed by tokio::spawn(server):
\* Server::bind panics when the address cannot be bound.
ServeHttp(service) ==
    /\ \E ok \in BindOutcomes(http_addr) :
         IF ok
         THEN /\ listener' = [listener EXCEPT !["http"] =
                                 [port |-> http_addr, task |-> "running", service |-> service]]
              /\ NoPanic("done")
         ELSE listener' = listener /\ Panic("cannot bind listen_addr")
    /\ UNCHANGED <<entry, cfg, start_pc, num_http_threads, rt, http_addr, https_addr,
                   tls_acceptor, redirect_port, conn, log, identity_file, fh, pj, hc>>

\* main.rs:145-151
RsServeHttpRedirect ==
    /\ pc = "serve_http_redirect"
    /\ ServeHttp(SecureHttpService)

\* main.rs:152-161
RsServeHttpMain ==
    /\ pc = "serve_http_main"
    /\ ServeHttp(InsecureHttpService)

\* ------------------------------------------------- connections, HTTPS listener
\* main.rs:123-135  one turn of the accept loop: the raw connection is taken,
\* the handshake future is built and spawned as a task of its own, and the loop
\* goes on without waiting for it.
HandshakesAwaited_Inline == {c \in Conns : conn[c].hs = "pending"}

\* main.rs:133-134  the handshakes the accept loop itself waits for: none, each
\* handshake future is handed to tokio::spawn and the closure returns Ok(()).
HandshakesAwaited == {}

HttpsAccept(c) ==
    /\ Accepting("https")
    /\ HandshakesAwaited = {}
    /\ conn[c].on = "none"
    /\ conn' = [conn EXCEPT ![c] = [on |-> "https", hs |-> "pending", st |-> "accepted"]]
    /\ UNCHANGED <<entry, cfg, start_pc, num_http_threads, rt, pc, http_addr, https_addr,
                   tls_acceptor, redirect_port, listener, log, panic_msg, identity_file, fh, pj, hc>>

\* main.rs:127-130  the handshake fails: the error is logged, the task resolves
\* to None and the connection is dropped.
HandshakeFail(c) ==
    /\ Alive
    /\ conn[c].hs = "pending"
    /\ log' = log \cup {LogRec("error: tls error", c)}
    /\ conn' = [conn EXCEPT ![c].hs = "failed", ![c].st = "dropped"]
    /\ UNCHANGED <<entry, cfg, start_pc, num_http_threads, rt, pc, http_addr, https_addr,
                   tls_acceptor, redirect_port, listener, panic_msg, identity_file, fh, pj, hc>>

\* main.rs:126,132-133,140  what becomes of a connection whose handshake
\* succeeded: the task resolves to the TLS stream, and the output of a spawned
\* task goes to nobody; the server of line 140 is built on the accept loop's
\* for_each future, which yields no stream.  The stream is dropped.
AfterHandshakeOk == "dropped"

HandshakeOk(c) ==
    /\ Alive
    /\ conn[c].hs = "pending"
    /\ conn' = [conn EXCEPT ![c].hs = "ok", ![c].st = AfterHandshakeOk]
    /\ UNCHANGED <<entry, cfg, start_pc, num_http_threads, rt, pc, http_addr, https_addr,
                   tls_acceptor, redirect_port, listener, log, panic_msg, identity_file, fh, pj, hc>>

\* What a panic inside a spawned task takes down: the runtime catches it at
\* the task boundary, so the task alone.
TaskPanicIsCaught == TRUE

\* main.rs:124-133  the handshake task panics: the task is over and its
\* connection dropped.  A handshake the accept loop waited for would unwind
\* through the loop.
HandshakePanic(c) ==
    /\ Alive
    /\ conn[c].hs = "pending"
    /\ conn' = [conn EXCEPT ![c].hs = "panicked", ![c].st = "panicked"]
    /\ listener' = IF TaskPanicIsCaught /\ c \notin HandshakesAwaited
                   THEN listener
                   ELSE [listener EXCEPT !["https"].task = "ended"]
    /\ UNCHANGED <<entry, cfg, start_pc, num_http_threads, rt, pc, http_addr, https_addr,
                   tls_acceptor, redirect_port, log, panic_msg, identity_file, fh, pj, hc>>

\* main.rs:122,136-138  incoming() yields an error: for_each ends with it, the
\* error is logged and the accept loop is over.
HttpsAcceptError ==
    /\ Accepting("https")
    /\ listener' = [listener EXCEPT !["https"].task = "ended"]
    /\ log' = log \cup {LogRec("error: server error", 0)}
    /\ UNCHANGED <<entry, cfg, start_pc, num_http_threads, rt, pc, http_addr, https_addr,
                   tls_acceptor, redirect_port, conn, panic_msg, identity_file, fh, pj, hc>>

\* -------------------------------------------------- connections, HTTP listener
\* main.rs:146,155  hyper's server accepts a plaintext connection.
HttpAccept(c) ==
    /\ Accepting("http")
    /\ conn[c].on = "none"
    /\ conn' = [conn EXCEPT ![c] = [on |-> "http", hs |-> "none", st |-> "accepted"]]
    /\ UNCHANGED <<entry, cfg, start_pc, num_http_threads, rt, pc, http_addr, https_addr,
                   tls_acceptor, redirect_port, listener, log, panic_msg, identity_file, fh, pj, hc>>

\* main.rs:96-116  the request of an accepted connection goes to service.handle
\* of the service the listener was built with.
Dispatch(l) == IF listener[l].service = "main" THEN "served_main" ELSE "redirected"

HttpRequest(c) ==
    /\ Alive
    /\ conn[c].on = "http" /\ conn[c].st = "accepted"
    /\ conn' = [conn EXCEPT ![c].st = Dispatch("http")]
    /\ UNCHANGED <<entry, cfg, start_pc, num_http_threads, rt, pc, http_addr, https_addr,
                   tls_acceptor, redirect_port, listener, log, panic_msg, identity_file, fh, pj, hc>>

\* main.rs:96-116  service.handle panics inside the task of its connection:
\* that task is over, the server that accepted the connection goes on.
HttpRequestPanic(c) ==
    /\ Alive
    /\ conn[c].on = "http" /\ conn[c].st = "accepted"
    /\ conn' = [conn EXCEPT ![c].st = "panicked"]
    /\ listener' = IF TaskPanicIsCaught
                   THEN listener
                   ELSE [listener EXCEPT !["http"].task = "ended"]
    /\ UNCHANGED <<entry, cfg, start_pc, num_http_threads, rt, pc, http_addr, https_addr,
                   tls_acceptor, redirect_port, log, panic_msg, identity_file, fh, pj, hc>>

\* ------------------------------------------------------------------- Next
Next ==
    \/ StartRuntime
    \/ StartBlockOn
    \/ StartReturn
    \/ RsGithub
    \/ RsJira
    \/ RsHttpAddr
    \/ RsHttpsAddr
    \/ RsTlsAcceptor
    \/ RsServices
    \/ RsBindHttps
    \/ RsSpawnHttps
    \/ RsServeHttpRedirect
    \/ RsServeHttpMain
    \/ \E c \in Conns : HttpsAccept(c)
    \/ \E c \in Conns : HandshakeFail(c)
    \/ \E c \in Conns : HandshakeOk(c)
    \/ \E c \in Conns : HandshakePanic(c)
    \/ HttpsAcceptError
    \/ \E c \in Conns : HttpAccept(c)
    \/ \E c \in Conns : HttpRequest(c)
    \/ \E c \in Conns : HttpRequestPanic(c)

Spec == Init /\ [][Next]_vars

\* ============================================================ http.rs
\* The bootstrap at rest, for the specifications of the request path.
SrvIdle ==
    /\ entry = "none"
    /\ cfg = [listen_addr |-> None, listen_addr_ssl |-> None,
              ssl_pkcs12_file |-> None, num_http_threads |-> None]
    /\ start_pc = "entry"
    /\ num_http_threads = 0
    /\ rt = "none"
    /\ pc = "unpolled"
    /\ http_addr = 0
    /\ https_addr = 0
    /\ tls_acceptor = "unset"
    /\ redirect_port = 0
    /\ listener = [l \in Listeners |-> NoListener]
    /\ conn = [c \in Conns |-> NewConn]
    /\ log = {}
    /\ panic_msg = ""
    /\ identity_file = "unread"

\* ------------------------------------------------------ response helpers
\* A response: status, the pieces of its plain-text body, its JSON payload.
\* util::new_msg_resp
new_msg_resp(status, msg) == [status |-> status, text |-> msg, json |-> <<>>]

\* util::new_empty_resp
new_empty_resp(status) == [status |-> status, text |-> <<>>, json |-> <<>>]

\* util::new_bad_req_resp
new_bad_req_resp(msg) == new_msg_resp(400, msg)

\* -------------------------------------------------------- FilteredHandler
MaxChain == 2

Requests ==
    {[path |-> "/", body |-> <<>>],
     [path |-> "/hook", body |-> <<"[", "1", "]">>],
     [path |-> "/hook", body |-> <<"[", "1">>]}

\* http.rs:33-36
Continue == [tag |-> "Continue", resp |-> new_empty_resp(0)]
Halt(resp) == [tag |-> "Halt", resp |-> resp]

\* What a filter may answer on a request.
FilterResults ==
    {Continue,
     Halt(new_msg_resp(401, <<"unauthorized">>)),
     Halt(new_empty_resp(403))}

\* The terminal handlers of a chain: NotFoundHandler, and a handler that
\* answers with what it was given.
TerminalHandlers == {"NotFoundHandler", "EchoHandler"}

\* http.rs:63-67 NotFoundHandler::handle; http.rs:15-18 for any other Handler.
HandlerHandle(h, req) ==
    IF h = "NotFoundHandler"
    THEN new_empty_resp(404)
    ELSE new_msg_resp(200, <<req.path>> \o req.body)

FilteredHandlerHandle_HaltDelegates(result, req) ==
    [delegate |-> TRUE, resp |-> result.resp, req |-> req]

FilteredHandlerHandle_Inverted(result, req) ==
    IF result.tag = "Halt"
    THEN [delegate |-> TRUE, resp |-> new_empty_resp(0), req |-> req]
    ELSE [delegate |-> FALSE, resp |-> result.resp, req |-> req]

FilteredHandlerHandle_ContinueSkips(result, req) ==
    IF result.tag = "Halt"
    THEN [delegate |-> FALSE, resp |-> result.resp, req |-> req]
    ELSE [delegate |-> FALSE, resp |-> new_empty_resp(404), req |-> req]

\* http.rs:56-59  the match of FilteredHandler::handle on the filter's result:
\* Halt(resp) resolves to resp, Continue hands req to the wrapped handler.
FilteredHandlerHandle(result, req) ==
    IF result.tag = "Halt"
    THEN [delegate |-> FALSE, resp |-> result.resp, req |-> req]
    ELSE [delegate |-> TRUE, resp |-> new_empty_resp(0), req |-> req]

\* http.rs:58  a FilteredHandler returns what its wrapped handler returns.
ContinueReturn(resp) == resp

\* The responses of levels 1 .. last of a chain, given that level last
\* resolved to resp and every level above it took the Continue arm.
RECURSIVE Unwind(_, _, _)
Unwind(j, last, resp) ==
    IF j >= last THEN resp ELSE ContinueReturn(Unwind(j + 1, last, resp))

Returns(depth, last, resp) ==
    [j \in 1 .. depth + 1 |-> IF j <= last THEN Some(Unwind(j, last, resp)) ELSE None]

\* A chain FilteredHandler(f1, FilteredHandler(f2, .. terminal)): level i <= depth
\* is the FilteredHandler owning filter i, level depth + 1 the terminal handler.
FhInputs ==
    UNION {
        { [pc |-> "running", req |-> r, results |-> fs, terminal |-> t, level |-> 1,
           filterCalls |-> [i \in 1 .. n |-> 0],
           handleCalls |-> [i \in 1 .. n + 1 |-> IF i = 1 THEN 1 ELSE 0],
           handleArgs |-> [i \in 1 .. n + 1 |-> IF i = 1 THEN Some(r) ELSE None],
           returns |-> [i \in 1 .. n + 1 |-> None],
           resp |-> None] :
          r \in Requests, fs \in [1 .. n -> FilterResults], t \in TerminalHandlers }
        : n \in 1 .. MaxChain }

InitFilter ==
    /\ SrvIdle
    /\ fh \in FhInputs
    /\ pj = PjIdle
    /\ hc = HcIdle

Depth == Len(fh.results)

\* http.rs:55-60  FilteredHandler::handle at the current level.
FhHandle ==
    /\ fh.pc = "running"
    /\ fh.level <= Depth
    /\ LET i == fh.level
           out == FilteredHandlerHandle(fh.results[i], Unwrap(fh.handleArgs[i]))
       IN  IF out.delegate
           THEN fh' = [fh EXCEPT !.filterCalls[i] = @ + 1,
                                 !.handleCalls[i + 1] = @ + 1,
                                 !.handleArgs[i + 1] = Some(out.req),
                                 !.level = i + 1]
           ELSE fh' = [fh EXCEPT !.filterCalls[i] = @ + 1,
                                 !.returns = Returns(Depth, i, out.resp),
                                 !.resp = Some(Unwind(1, i, out.resp)),
                                 !.pc = "done"]
    /\ UNCHANGED <<srvVars, pj, hc>>

\* http.rs:17,63-67  the terminal handler of the chain answers.
FhTerminal ==
    /\ fh.pc = "running"
    /\ fh.level = Depth + 1
    /\ LET r == HandlerHandle(fh.terminal, Unwrap(fh.handleArgs[fh.level]))
       IN  fh' = [fh EXCEPT !.returns = Returns(Depth, Depth + 1, r),
                            !.resp = Some(Unwind(1, Depth + 1, r)),
                            !.pc = "done"]
    /\ UNCHANGED <<srvVars, pj, hc>>

NextFilter ==
    \/ FhHandle
    \/ FhTerminal

SpecFilter == InitFilter /\ [][NextFilter]_vars

\* ------------------------------------- Handler helpers and NotFoundHandler
\* The error texts a handler may pass to respond_error.
ErrTexts == {"db: connection refused", "token abc123 rejected", ""}

\* The requests a handler may be given.
HandlerRequests ==
    [method : {"GET", "POST"}, path : {"/", "/hook"}, body : {<<>>, <<"[", "1">>}]

respond_error_Leaks(err) ==
    [resp |-> new_msg_resp(500, <<err>>),
     logged |-> [kind |-> "error: InternalServerError: ", text |-> err]]

\* http.rs:23-26  Handler::respond_error: the text goes to the log, the
\* response is the empty one with INTERNAL_SERVER_ERROR.
respond_error(err) ==
    [resp |-> new_empty_resp(500),
     logged |-> [kind |-> "error: InternalServerError: ", text |-> err]]

NotFoundHandle_EchoesPath(req) ==
    [resp |-> new_msg_resp(404, <<req.path>>), consumed |-> <<>>]

\* http.rs:63-67  NotFoundHandler::handle: the request is bound to _ and
\* dropped, nothing of its body is read.
NotFoundHandle(req) ==
    [resp |-> HandlerHandle("NotFoundHandler", req), consumed |-> <<>>]

InitHandler ==
    /\ SrvIdle
    /\ fh = FhIdle
    /\ pj = PjIdle
    /\ hc = HcIdle

\* http.rs:23-26  some handler calls self.respond_error(err).
HcRespondError(err) ==
    /\ LET out == respond_error(err)
       IN  hc' = [hc EXCEPT !.errors = @ \cup {[err |-> err, resp |-> out.resp]},
                            !.log = @ \cup {out.logged}]
    /\ UNCHANGED <<srvVars, fh, pj>>

\* http.rs:63-67  NotFoundHandler is given a request.
HcNotFound(req) ==
    /\ LET out == NotFoundHandle(req)
       IN  hc' = [hc EXCEPT !.notfound =
                      @ \cup {[req |-> req, resp |-> out.resp, consumed |-> out.consumed]}]
    /\ UNCHANGED <<srvVars, fh, pj>>

NextHandler ==
    \/ \E err \in ErrTexts : HcRespondError(err)
    \/ \E req \in HandlerRequests : HcNotFound(req)

SpecHandler == InitHandler /\ [][NextHandler]_vars

\* ------------------------------------------------------------- parse_json
MaxBody == 5

\* The bytes a body is made of.
Chars == {"[", "]", "1", ","}

\* The body as the transport delivers it: in one chunk or cut in two.
Chunkings(body) ==
    {<<body>>} \cup
    {<<SubSeq(body, 1, k), SubSeq(body, k + 1, Len(body))>> : k \in 1 .. Len(body) - 1}

\* serde_json::from_slice::<Vec<u64>>, the target schema being a list of
\* unsigned integers.  The result is [ok, val, err].
Ok(v) == [ok |-> TRUE, val |-> v, err |-> ""]
Err(e) == [ok |-> FALSE, val |-> <<>>, err |-> e]

\* Index after the run of digits that starts at i.
RECURSIVE DigitsEnd(_, _)
DigitsEnd(data, i) ==
    IF i <= Len(data) /\ data[i] = "1" THEN DigitsEnd(data, i + 1) ELSE i

\* The value of the decimal digits data[i .. j - 1].
RECURSIVE Decimal(_, _, _)
Decimal(data, i, j) ==
    IF j <= i THEN 0 ELSE 10 * Decimal(data, i, j - 1) + 1

\* The elements of a list from position i on; expect is "first" after the
\* opening bracket, "value" after a comma, "sep" after an element.
RECURSIVE ParseElems(_, _, _, _)
ParseElems(data, i, acc, expect) ==
    IF i > Len(data) THEN Err("EOF while parsing a list")
    ELSE LET c == data[i] IN
         CASE c = "1" /\ expect # "sep" ->
                LET j == DigitsEnd(data, i)
                IN  ParseElems(data, j, Append(acc, Decimal(data, i, j)), "sep")
           [] c = "]" /\ expect = "value" -> Err("trailing comma")
           [] c = "]" /\ expect # "value" ->
                IF i < Len(data) THEN Err("trailing characters") ELSE Ok(acc)
           [] c = "," /\ expect = "sep" -> ParseElems(data, i + 1, acc, "value")
           [] c = "," /\ expect # "sep" -> Err("expected value")
           [] c = "[" /\ expect # "sep" -> Err("invalid type: sequence, expected u64")
           [] OTHER -> Err("expected comma or closing bracket")

from_slice(data) ==
    IF data = <<>> THEN Err("EOF while parsing a value")
    ELSE CASE data[1] = "[" -> ParseElems(data, 2, <<>>, "first")
           [] data[1] = "1" -> Err("invalid type: integer, expected a sequence")
           [] OTHER -> Err("expected value")

\* The continuations a caller may pass: F: FnOnce(T) -> Response.
Funcs == {"echo", "created"}

FuncResp(f, obj) ==
    IF f = "echo"
    THEN [status |-> 200, text |-> <<>>, json |-> obj]
    ELSE [status |-> 201, text |-> <<"created">>, json |-> <<Len(obj)>>]

ParseJsonMap_NoDescription(data, func) ==
    LET r == from_slice(data)
    IN  IF r.ok
        THEN [called |-> TRUE, arg |-> r.val, resp |-> FuncResp(func, r.val)]
        ELSE [called |-> FALSE, arg |-> <<>>,
              resp |-> new_bad_req_resp(<<"Failed to parse JSON">>)]

ParseJsonMap_DropsResult(data, func) ==
    LET r == from_slice(data)
    IN  IF r.ok
        THEN [called |-> TRUE, arg |-> r.val, resp |-> new_empty_resp(200)]
        ELSE [called |-> FALSE, arg |-> <<>>,
              resp |-> new_bad_req_resp(<<"Failed to parse JSON: ", r.err>>)]

\* http.rs:73-82  the closure mapped over the collected body: a parse error
\* becomes the 400 response, a parsed value goes to func.
ParseJsonMap(data, func) ==
    LET r == from_slice(data)
    IN  IF r.ok
        THEN [called |-> TRUE, arg |-> r.val, resp |-> FuncResp(func, r.val)]
        ELSE [called |-> FALSE, arg |-> <<>>,
              resp |-> new_bad_req_resp(<<"Failed to parse JSON: ", r.err>>)]

\* A request handed to parse_json, nothing of its body read yet.
PjStart(body, chunks, func) ==
    [pc |-> "reading", body |-> body, chunks |-> chunks, data |-> <<>>, polls |-> 0,
     func |-> func, funcCalls |-> 0, funcArg |-> None, resp |-> None]

InitJson ==
    /\ SrvIdle
    /\ fh = FhIdle
    /\ hc = HcIdle
    /\ \E n \in 0 .. MaxBody : \E b \in [1 .. n -> Chars] :
         \E ch \in Chunkings(b), f \in Funcs : pj = PjStart(b, ch, f)

\* http.rs:73  concat2 takes the next chunk of the body stream.
PjChunk ==
    /\ pj.pc = "reading"
    /\ pj.chunks # <<>>
    /\ pj' = [pj EXCEPT !.data = @ \o Head(pj.chunks),
                        !.chunks = Tail(@),
                        !.polls = @ + 1]
    /\ UNCHANGED <<srvVars, fh, hc>>

\* http.rs:73  the body stream fails: concat2 resolves to the error and the
\* mapped closure does not run.
PjStreamError ==
    /\ pj.pc = "reading"
    /\ pj.chunks # <<>>
    /\ pj' = [pj EXCEPT !.pc = "failed", !.polls = @ + 1]
    /\ UNCHANGED <<srvVars, fh, hc>>

Concat2Ready_FirstChunk(chunks, polls) == polls >= 1 \/ chunks = <<>>

\* http.rs:73  concat2 resolves when the body stream has ended, not before.
Concat2Ready(chunks, polls) == chunks = <<>>

\* http.rs:73-82  the stream ends: concat2 resolves to the collected bytes and
\* the closure runs on them.
PjEnd ==
    /\ pj.pc = "reading"
    /\ Concat2Ready(pj.chunks, pj.polls)
    /\ LET out == ParseJsonMap(pj.data, pj.func)
       IN  pj' = [pj EXCEPT !.pc = "done",
                            !.polls = @ + 1,
                            !.funcCalls = IF out.called THEN @ + 1 ELSE @,
                            !.funcArg = IF out.called THEN Some(out.arg) ELSE @,
                            !.resp = Some(out.resp)]
    /\ UNCHANGED <<srvVars, fh, hc>>

NextJson ==
    \/ PjChunk
    \/ PjStreamError
    \/ PjEnd

SpecJson == InitJson /\ [][NextJson]_vars

\* ======================================================== claims, Spec
SecureMode == IsSome(cfg.ssl_pkcs12_file)

\* C1: in secure mode a failed handshake on one connection is logged and that
\* connection is dropped, and any other connection of the HTTPS listener whose
\* handshake succeeded is served by the main service.
C1_FailedHandshakeIsolated ==
    \A c \in Conns :
        conn[c].hs = "failed" =>
            /\ LogRec("error: tls error", c) \in log
            /\ conn[c].st = "dropped"
            /\ \A d \in Conns \ {c} : conn[d].hs = "ok" => conn[d].st = "served_main"

\* C2: with a TLS identity configured the main service is never bound to the
\* plaintext listener and never answers a request that arrived on it: such
\* requests are redirected, and only the HTTPS listener carries the main service.
C2_PlaintextNeverMain ==
    SecureMode =>
        /\ \A l \in Listeners : listener[l].service = "main" => l = "https"
        /\ \A c \in Conns :
             conn[c].on = "http" => conn[c].st \in {"accepted", "redirected", "panicked"}

C2_Witness ==
    /\ SecureMode
    /\ listener["https"].service = "main"
    /\ \E c \in Conns : conn[c].on = "http" /\ conn[c].st = "redirected"

FailedFileStates == {"missing", "unreadable", "wrong_pass"}

\* C3: when a PKCS#12 path is configured and the file cannot be opened, read or
\* decoded, startup has aborted and no listener is bound, spawned or given a
\* service.
C3_IdentityFailureAborts ==
    (SecureMode /\ identity_file \in FailedFileStates) =>
        /\ pc = "panicked"
        /\ \A l \in Listeners : listener[l] = NoListener
        /\ \A c \in Conns : conn[c].on = "none"

C3_Witness ==
    /\ SecureMode
    /\ identity_file = "wrong_pass"
    /\ pc = "panicked"

\* C4: without a PKCS#12 path the HTTPS address is never bound, the redirect
\* service is never served, and once startup is through exactly the HTTP
\* listener is bound and dispatches to the main service.
C4_InsecureTopology ==
    ~SecureMode =>
        /\ listener["https"] = NoListener
        /\ listener["http"].service \in {"none", "main"}
        /\ \A c \in Conns : conn[c].on # "https" /\ conn[c].st # "redirected"
        /\ pc = "done" =>
              listener["http"] = [port |-> http_addr, task |-> "running", service |-> "main"]

C4_Witness ==
    /\ ~SecureMode
    /\ pc = "done"
    /\ \E c \in Conns : conn[c].on = "http" /\ conn[c].st = "served_main"

\* C5: start() does not return and its runtime is not torn down.
C5_StartRunsForever ==
    entry = "start" => (start_pc # "returned" /\ rt # "dropped")

\* C10: startup never aborts after a listener has begun to accept connections.
C10_NoAbortAfterAccepting ==
    pc = "panicked" => \A c \in Conns : conn[c].on = "none"

\* ================================================== claims, SpecFilter
FilterEvaluated(i) == fh.filterCalls[i] >= 1

\* C6: a FilteredHandler whose filter returned Halt(R) has evaluated the filter
\* exactly once, has resolved to exactly R, and its wrapped handler was invoked
\* zero times.
C6_HaltShortCircuits ==
    fh.pc # "idle" =>
        \A i \in 1 .. Depth :
            (FilterEvaluated(i) /\ fh.results[i].tag = "Halt") =>
                /\ fh.filterCalls[i] = 1
                /\ fh.returns[i] = Some(fh.results[i].resp)
                /\ fh.handleCalls[i + 1] = 0
                /\ fh.handleArgs[i + 1] = None

C6_Witness ==
    /\ fh.pc = "done"
    /\ \E i \in 1 .. Depth :
         /\ fh.results[i].tag = "Halt"
         /\ fh.filterCalls[i] = 1
         /\ fh.resp = Some(fh.results[i].resp)

\* C7: a FilteredHandler whose filter returned Continue has invoked its wrapped
\* handler exactly once, with the request it was itself given, and once the
\* request is answered it returns exactly the wrapped handler's response.
C7_ContinueDelegates ==
    fh.pc # "idle" =>
        \A i \in 1 .. Depth :
            (FilterEvaluated(i) /\ fh.results[i].tag = "Continue") =>
                /\ fh.filterCalls[i] = 1
                /\ fh.handleCalls[i + 1] = 1
                /\ fh.handleArgs[i + 1] = Some(fh.req)
                /\ fh.pc = "done" =>
                      /\ fh.returns[i + 1] # None
                      /\ fh.returns[i] = fh.returns[i + 1]
                      /\ (i = Depth =>
                            fh.returns[i] = Some(HandlerHandle(fh.terminal, fh.req)))

C7_Witness ==
    /\ fh.pc = "done"
    /\ \A i \in 1 .. Depth : fh.results[i].tag = "Continue"
    /\ fh.handleCalls[Depth + 1] = 1
    /\ fh.resp = Some(HandlerHandle(fh.terminal, fh.req))
    /\ fh.terminal = "EchoHandler"

\* ==================================================== claims, SpecJson
Contains(text, piece) == \E k \in 1 .. Len(text) : text[k] = piece

\* C8: when the fully received body does not deserialize as the target schema,
\* parse_json answers 400 with a message that contains the parse error's
\* description, and the continuation is never invoked.
C8_MalformedBodyIs400 ==
    (pj.pc = "done" /\ ~from_slice(pj.body).ok) =>
        /\ pj.resp # None
        /\ Unwrap(pj.resp).status = 400
        /\ Contains(Unwrap(pj.resp).text, from_slice(pj.body).err)
        /\ pj.funcCalls = 0
        /\ pj.funcArg = None

C8_Witness ==
    /\ pj.pc = "done"
    /\ pj.body = <<"[", "1", ",">>
    /\ pj.polls = 3
    /\ Unwrap(pj.resp) = new_bad_req_resp(<<"Failed to parse JSON: ", "EOF while parsing a list">>)

\* C9: when the body deserializes as the target schema, the continuation is
\* invoked exactly once, with the parsed value, and parse_json answers exactly
\* what the continuation answered.
C9_WellFormedBodyContinues ==
    (pj.pc = "done" /\ from_slice(pj.body).ok) =>
        /\ pj.funcCalls = 1
        /\ pj.funcArg = Some(from_slice(pj.body).val)
        /\ pj.resp = Some(FuncResp(pj.func, from_slice(pj.body).val))

C9_Witness ==
    /\ pj.pc = "done"
    /\ pj.body = <<"[", "1", ",", "1", "]">>
    /\ pj.func = "echo"
    /\ pj.funcCalls = 1
    /\ Unwrap(pj.resp) = [status |-> 200, text |-> <<>>, json |-> <<1, 1>>]

\* ================================================== claims, SpecHandler
\* C11: respond_error answers 500 with an empty body whatever the error text
\* is, so two calls with different texts answer the same, and the text is in
\* the server log and nowhere in the response.
C11_ErrorResponseOpaque ==
    /\ \A x \in hc.errors :
         /\ x.resp.status = 500
         /\ x.resp.text = <<>> /\ x.resp.json = <<>>
         /\ \E l \in hc.log : l.text = x.err
    /\ \A x, y \in hc.errors : x.resp = y.resp

C11_Witness ==
    \E x, y \in hc.errors :
        /\ x.err = "db: connection refused"
        /\ y.err = "token abc123 rejected"
        /\ x.resp = y.resp
        /\ Cardinality(hc.log) >= 2

\* C12: NotFoundHandler answers 404 with an empty body for every request,
\* whatever its method, path and body, and reads nothing of the body.
C12_NotFoundAlways404 ==
    /\ \A x \in hc.notfound :
         /\ x.resp.status = 404
         /\ x.resp.text = <<>> /\ x.resp.json = <<>>
         /\ x.consumed = <<>>
    /\ \A x, y \in hc.notfound : x.resp = y.resp

C12_Witness ==
    \E x, y \in hc.notfound :
        /\ x.req.method # y.req.method
        /\ x.req.path # y.req.path
        /\ x.req.body = <<>> /\ y.req.body # <<>>
        /\ x.resp = y.resp

\* ============================================== claims, Spec (continued)
\* C13: the runtime is built with max(2, n) worker threads when
\* num_http_threads is configured as n, with 20 when it is unset, and never
\* with fewer than 2.
C13_ThreadCount ==
    (entry = "start" /\ rt # "none") =>
        /\ num_http_threads >= 2
        /\ cfg.num_http_threads = None => num_http_threads = 20
        /\ \A n \in 0 .. 64 :
             cfg.num_http_threads = Some(n) =>
                 num_http_threads = (IF n < 2 THEN 2 ELSE n)

C13_Witness ==
    /\ entry = "start"
    /\ rt = "running"
    /\ cfg.num_http_threads = Some(1)
    /\ num_http_threads = 2

\* ======================================= claims, SpecFilter (continued)
\* C14: in a chain of nested FilteredHandlers the filters are evaluated in
\* order: a filter is evaluated only after the one before it returned Continue,
\* the first Halt(R) answers the request with R and no later filter is
\* evaluated, and the terminal handler begins only after every filter returned
\* Continue.
C14_FiltersInOrder ==
    fh.pc # "idle" =>
        /\ \A i \in 1 .. Depth :
             /\ fh.filterCalls[i] <= 1
             /\ (i > 1 /\ FilterEvaluated(i)) =>
                    (FilterEvaluated(i - 1) /\ fh.results[i - 1].tag = "Continue")
             /\ (FilterEvaluated(i) /\ fh.results[i].tag = "Halt") =>
                    /\ fh.pc = "done"
                    /\ fh.resp = Some(fh.results[i].resp)
                    /\ \A j \in i + 1 .. Depth : ~FilterEvaluated(j)
                    /\ fh.handleCalls[Depth + 1] = 0
        /\ fh.handleCalls[Depth + 1] >= 1 =>
             \A i \in 1 .. Depth : FilterEvaluated(i) /\ fh.results[i].tag = "Continue"

C14_Witness ==
    /\ fh.pc = "done"
    /\ Depth = 2
    /\ fh.results[1].tag = "Continue"
    /\ fh.results[2].tag = "Halt"
    /\ fh.filterCalls = <<1, 1>>
    /\ fh.handleCalls[3] = 0
    /\ fh.resp = Some(fh.results[2].resp)

\* ============================================== claims, Spec (continued)
\* C15: every connection of the HTTPS listener whose handshake succeeded is
\* handed to the HTTP server and dispatched to the main service.
C15_HandshakeOkIsServed ==
    \A c \in Conns : conn[c].hs = "ok" => conn[c].st = "served_main"

\* ========================================= claims, SpecJson (continued)
RECURSIVE ConcatAll(_)
ConcatAll(chunks) ==
    IF chunks = <<>> THEN <<>> ELSE Head(chunks) \o ConcatAll(Tail(chunks))

PjSettled == pj.pc \in {"done", "failed"}

\* C16: parse_json drains the body once: what was read followed by what is
\* still in the stream is always the body; the continuation or the 400 response
\* comes only when the stream has ended and all of the body was read; and once
\* the decoder has completed or failed the stream is not read again.
C16_BodyDrainedOnce ==
    /\ [](pj.pc # "idle" =>
            /\ pj.data \o ConcatAll(pj.chunks) = pj.body
            /\ (pj.resp # None \/ pj.funcCalls > 0) =>
                   (pj.pc = "done" /\ pj.chunks = <<>> /\ pj.data = pj.body)
            /\ pj.funcCalls <= 1)
    /\ [][PjSettled => (pj'.polls = pj.polls /\ pj'.data = pj.data /\ pj'.resp = pj.resp)]_vars

C16_Witness ==
    /\ pj.pc = "done"
    /\ pj.body = <<"[", "1", ",", "1", "]">>
    /\ pj.polls = 3
    /\ pj.data = pj.body
    /\ pj.funcCalls = 1

\* ============================================== claims, Spec (continued)
\* C17: the accept loop of the HTTPS listener gives every accepted connection
\* a handshake task of its own and does not wait for it: while a handshake is
\* pending the loop can accept any further connection, and every pending
\* handshake can complete whatever the others do.
C17_AcceptDoesNotWait ==
    \A c \in Conns :
        conn[c].hs = "pending" =>
            /\ conn[c].on = "https" /\ conn[c].st = "accepted"
            /\ \A d \in Conns \ {c} :
                 /\ (Accepting("https") /\ conn[d].on = "none") => ENABLED HttpsAccept(d)
                 /\ (Alive /\ conn[d].hs = "pending") =>
                        (ENABLED HandshakeOk(d) /\ ENABLED HandshakeFail(d))

C17_Witness ==
    /\ Accepting("https")
    /\ conn[1].hs = "pending"
    /\ conn[2].on = "https" /\ conn[2].hs = "ok"

PanicStep(c) == conn[c].st # "panicked" /\ conn'[c].st = "panicked"

\* C18: a panic inside the task of one connection or one handshake ends that
\* task only: the step leaves both accept loops, the runtime, run_server and
\* every other connection as they were, and afterwards the other connections
\* can still be accepted and completed.
C18_TaskPanicIsolated ==
    /\ [][\A c \in Conns :
            PanicStep(c) =>
                /\ listener' = listener
                /\ rt' = rt /\ pc' = pc /\ panic_msg' = panic_msg
                /\ \A d \in Conns \ {c} : conn'[d] = conn[d]]_vars
    /\ [](\A c \in Conns :
            conn[c].st = "panicked" =>
                \A d \in Conns \ {c} :
                    /\ (Alive /\ conn[d].hs = "pending") => ENABLED HandshakeOk(d)
                    /\ (Alive /\ conn[d].on = "http" /\ conn[d].st = "accepted") =>
                           ENABLED HttpRequest(d)
                    /\ (Accepting("http") /\ conn[d].on = "none") => ENABLED HttpAccept(d)
                    /\ (Accepting("https") /\ conn[d].on = "none") => ENABLED HttpsAccept(d))

C18_Witness ==
    /\ conn[1].on = "https" /\ conn[1].hs = "panicked"
    /\ conn[2].on = "http" /\ conn[2].st = "redirected"
    /\ listener["https"].task = "running"
    /\ listener["http"].task = "running"
    /\ Alive

\* The port of the HTTPS bind address the configuration names.
ConfiguredHttpsAddr == ParseSocketAddr(UnwrapOr(cfg.listen_addr_ssl, DefaultHttpsAddr))

\* A configured address that is not of the form ip:port.
Malformed(addr) == addr = Some("bogus")

\* C19: the redirect service is constructed with the port of the configured
\* HTTPS bind address, 3001 when none is configured, so whenever the HTTP
\* listener serves redirects they point at the port the HTTPS listener is
\* bound to.
C19_RedirectTargetsHttpsPort ==
    /\ redirect_port # 0 =>
         /\ redirect_port = ConfiguredHttpsAddr[2]
         /\ cfg.listen_addr_ssl = None => redirect_port = 3001
    /\ listener["http"].service = "redirect" =>
         (listener["https"].port # 0 /\ redirect_port = listener["https"].port)
    /\ \A c \in Conns :
         conn[c].st = "redirected" => redirect_port = listener["https"].port

C19_Witness ==
    /\ cfg.listen_addr_ssl = Some("0.0.0.0:8443")
    /\ cfg.listen_addr = Some("0.0.0.0:3001")
    /\ redirect_port = 8443
    /\ listener["https"].port = 8443
    /\ \E c \in Conns : conn[c].on = "http" /\ conn[c].st = "redirected"

\* C20: both bind addresses are parsed before the TLS identity is loaded and
\* before the topology is chosen: with a malformed address of either kind,
\* secure mode or not, startup never gets past the parsing, the PKCS#12 file is
\* never read and no socket is bound.
C20_AddressesParsedFirst ==
    (Malformed(cfg.listen_addr) \/ Malformed(cfg.listen_addr_ssl)) =>
        /\ pc \in {"unpolled", "dropped", "jira", "http_addr", "https_addr", "panicked"}
        /\ identity_file = "unread"
        /\ tls_acceptor = "unset"
        /\ \A l \in Listeners : listener[l] = NoListener
        /\ \A c \in Conns : conn[c].on = "none"

C20_Witness ==
    /\ ~SecureMode
    /\ cfg.listen_addr = None
    /\ cfg.listen_addr_ssl = Some("bogus")
    /\ pc = "panicked"
    /\ panic_msg = "invalid listen_addr_ssl"
    /\ identity_file = "unread"

====
